---- MODULE Spec2Model ----
(***************************************************************************)
(* Desktop client of the time tracker: the offline action queue            *)
(* (OfflineQueueProvider, contexts/OfflineQueueContext) and the            *)
(* connectivity monitor that drains it.                                    *)
(*                                                                         *)
(* The store is the Dexie table queuedActions.  Every await of the source  *)
(* is a point where other handlers run, so a drain pass (processQueue) is  *)
(* a little process with a position; several passes may be alive at once.  *)
(* Every store operation may be rejected by IndexedDB (dbOk = FALSE).      *)
(*                                                                         *)
(* The second half is the tracking session of components/Dashboard: start, *)
(* stop, the reconciliation at mount, the capture schedule kept by the     *)
(* main process (electron-main/main.ts) and the handler of its ticks.      *)
(***************************************************************************)
EXTENDS Integers, Sequences, FiniteSets, TLC

\* ---------------------------------------------------------------- bounds
MaxActions == 2      \* addToQueue calls in one run (ids 1..MaxActions)
MaxTime == 2         \* values Date.now() takes: 1..MaxTime
MaxPasses == 2       \* processQueue invocations alive at the same time
MaxSessions == 2     \* time entries the remote creates in one run
MaxCalls == 2        \* start/stop handlers awaiting the remote at the same time
MaxInflight == 2     \* tick handlers awaiting their capture or upload

\* ------------------------------------------------------- program constants
DefaultMaxRetries == 3   \* maxRetries the capture handler passes to addToQueue
DefaultInterval == 5     \* useState<number>(5): screenshot interval in minutes
OtherInterval == 10      \* a value the user types into the interval input
MinInterval == 1         \* min="1" of the interval input
MaxInterval == 60        \* max="60" of the interval input

ActionTypes == {"screenshot_upload", "time_entry_create", "time_entry_update"}
\* the type the one caller of addToQueue, the capture handler, passes
EnqueuedTypes == {"screenshot_upload"}

VARIABLES
    store,          \* db.queuedActions: set of QueuedAction records
    nextId,         \* the ++id key generator of the table
    queueSize,      \* React state queueSize
    isOnline,       \* React state isOnline, as last set by an event handler
    closureOnline,  \* isOnline as captured by the handlers/timer now registered
    passes,         \* the processQueue invocations in progress, oldest first
    probe,          \* which history is recorded in this behaviour (never changes)
    addResult,      \* history "enqueue": the last addToQueue call and its outcome
    succeeded,      \* history "removal": ids some pass applied successfully
    applied,        \* history "applications": id -> successful applications
                    \*   after which the store accepted the delete (saturating)
    failedPasses,   \* history "failures": id -> failed applications after which
                    \*   the store accepted the pass's write (saturating)
    exhausted,      \* history "removal": ids whose retryCount a pass raised to
                    \*   maxRetries
    cleared,        \* history "removal": clearQueue has emptied the store
    reconnected,    \* history "pass": the signal went offline -> online after
                    \*   the last change addToQueue or clearQueue made to the store
    lastDone,       \* history "pass": how the pass that ended last went
    requests,       \* history "requests": id -> remote requests sent for the
                    \*   action (saturating)
    restarted,      \* history "restart": the renderer was loaded anew and no
                    \*   handler has changed the store since
    \* ---- Dashboard (renderer), main process, remote
    phase,          \* "login": Dashboard not mounted; "loading": loadInitialData
                    \*   awaits the remote; "ready": Dashboard rendered
    employee,       \* useAuth().employee while Dashboard is mounted (Null: none)
    selectedProject,    \* React state (Null or a project id)
    selectedTask,       \* React state (Null or a task id)
    currentTimeEntry,   \* React state (Null or a time entry id)
    isTracking,         \* React state
    isTrackingRef,      \* isTrackingRef.current
    currentTimeEntryRef,    \* currentTimeEntryRef.current
    error,          \* React state error ("" or which message)
    screenshotInterval, \* React state: minutes typed into the settings input
    schedule,       \* main process: minutes of the running setInterval (Null:
                    \*   none is running)
    handle,         \* main process: this.screenshotInterval (Null or the id of
                    \*   the timer setInterval returned)
    timers,         \* main process: the intervals that are set and not cleared
    lastMain,       \* history "scheduler": the schedule request the main
                    \*   process handled last and its answer
    remoteActive,   \* remote: ids of the employee's active time entries
    nextSession,    \* remote: id the next created time entry gets
    calls,          \* startTracking / stopTracking invocations awaiting the remote
    lastTick,       \* history: what the handler of the last tick did
    inflight        \* invocations of the tick handler awaiting their capture
                    \*   or their upload, oldest first

queueVars == <<store, nextId, queueSize, isOnline, closureOnline, passes, probe,
               addResult, succeeded, applied, failedPasses, exhausted, cleared,
               reconnected, lastDone, requests, restarted>>
sessionVars == <<phase, employee, selectedProject, selectedTask,
                 currentTimeEntry, isTracking, isTrackingRef,
                 currentTimeEntryRef, error, screenshotInterval, schedule,
                 handle, timers, lastMain, remoteActive, nextSession, calls,
                 lastTick, inflight>>
vars == <<queueVars, sessionVars>>

\* The history variables observe the program and never influence it.  Each
\* behaviour records one kind of history, so that the state space is the
\* program's times one history, not times all of them.
Probes == {"none", "enqueue", "removal", "applications", "failures", "pass",
           "capture", "requests", "restart", "scheduler"}

Ids == 1..MaxActions

Null == 0
Sessions == 1..MaxSessions
Employees == {1}
Images == {"png1", "png2"}

\* the data object the capture handler builds for addToQueue (the network
\* fields ip and mac are left out)
QueuedDataSwapsIds(imageData, employeeId, timeEntryId, permission) ==
    [imageData |-> imageData, employeeId |-> timeEntryId,
     timeEntryId |-> employeeId, permission |-> permission]
QueuedData(imageData, employeeId, timeEntryId, permission) ==
    [imageData |-> imageData, employeeId |-> employeeId,
     timeEntryId |-> timeEntryId, permission |-> permission]

\* interface QueuedAction
QueuedAction == [id : Ids, type : ActionTypes,
                 data : [imageData : Images, employeeId : Employees,
                         timeEntryId : Sessions, permission : BOOLEAN],
                 timestamp : 1..MaxTime, retryCount : Nat, maxRetries : Nat]

StoredIds(st) == {a.id : a \in st}

\* ------------------------------------------------------------ Dexie table
\* db.queuedActions.count()
DbCount(st) == Cardinality(st)

\* db.queuedActions.delete(key): removes the record with that key, if any
DbDeleteKeepsRecord(st, id) == st
DbDelete(st, id) == {a \in st : a.id # id}

\* db.queuedActions.update(key, {retryCount}): modifies the record with that
\* key; when there is none it changes nothing (it never inserts)
DbUpdateUpserts(st, act, rc) ==
    {a \in st : a.id # act.id} \cup {[act EXCEPT !.retryCount = rc]}
DbUpdate(st, act, rc) ==
    {IF a.id = act.id THEN [a EXCEPT !.retryCount = rc] ELSE a : a \in st}

\* a precedes b in the index on timestamp (equal keys: by primary key)
Before(a, b) ==
    \/ a.timestamp < b.timestamp
    \/ a.timestamp = b.timestamp /\ a.id < b.id

RECURSIVE OrderByTimestamp(_)
OrderByTimestamp(st) ==
    IF st = {} THEN <<>>
    ELSE LET first == CHOOSE a \in st : \A b \in st \ {a} : Before(a, b)
         IN <<first>> \o OrderByTimestamp(st \ {first})

RECURSIVE OrderByPrimaryKey(_)
OrderByPrimaryKey(st) ==
    IF st = {} THEN <<>>
    ELSE LET first == CHOOSE a \in st : \A b \in st \ {a} : a.id < b.id
         IN <<first>> \o OrderByPrimaryKey(st \ {first})

\* db.queuedActions.orderBy('timestamp').toArray()
ReadQueueInKeyOrder(st) == OrderByPrimaryKey(st)
ReadQueue(st) == OrderByTimestamp(st)

\* ------------------------------------------------------------ processQueue
\* updatedRetryCount >= action.maxRetries
DropsOneEarly(updatedRetryCount, maxRetries) == updatedRetryCount >= maxRetries - 1
MaxRetriesReached(updatedRetryCount, maxRetries) == updatedRetryCount >= maxRetries

\* a processQueue invocation in progress: the actions of the array it read
\* that are not settled yet, in the array's order (todo: its head is the one
\* whose processQueuedAction is awaited; when it is empty the pass awaits its
\* final updateQueueSize). For the history "pass" a pass that begins with
\* reconnected true is watched: n is the length of the array it read, until an
\* application fails or addToQueue stores an action (then n is Unwatched), and
\* dbOk tells whether the store accepted every operation of the pass so far
Unwatched == 0 - 1
NewPass(todo, watched) ==
    [todo |-> todo, n |-> IF watched THEN Len(todo) ELSE Unwatched, dbOk |-> TRUE]
Unwatch(q) == [q EXCEPT !.n = Unwatched, !.dbOk = TRUE]

\* what lastDone records when pass q ends: n and dbOk of a watched pass that
\* settled every action it read, NoPassDone otherwise
NoPassDone == [n |-> Unwatched, dbOk |-> TRUE]
Summary(q, dbOk) ==
    IF q.n # Unwatched /\ q.todo = <<>>
    THEN [n |-> q.n, dbOk |-> q.dbOk /\ dbOk]
    ELSE NoPassDone

RemoveAt(seq, i) == SubSeq(seq, 1, i - 1) \o SubSeq(seq, i + 1, Len(seq))

\* what lastTick holds before any tick was handled.  capture: the result of
\* the capture request ("not_requested": the handler returned at line 256);
\* active: the React state was a tracking session when the tick was handled;
\* uploaded: uploadScreenshot was called; failed: it threw; queued: addToQueue
\* was called; late: the session was no longer tracked when the handler
\* ended; data (for the history "capture" only): what was captured and queued
NoData == [imageData |-> "", employeeId |-> Null, timeEntryId |-> Null,
           permission |-> FALSE]
NoTick == [capture |-> "none", active |-> FALSE, uploaded |-> FALSE,
           failed |-> FALSE, queued |-> FALSE, late |-> FALSE, data |-> NoData]

\* what lastMain holds before any schedule request was handled.  op: "start"
\* or "stop"; after: the op of the request handled before it; found: the
\* handler cleared an interval that was set; success: the success field of
\* its answer
NoMain == [op |-> "none", after |-> "none", found |-> FALSE, success |-> FALSE]

\* the renderer after a (re)load: the useState / useRef initial values of
\* Dashboard, nothing awaiting
RendererInit ==
    /\ phase = "login"
    /\ employee = Null
    /\ selectedProject = Null
    /\ selectedTask = Null
    /\ currentTimeEntry = Null
    /\ isTracking = FALSE
    /\ isTrackingRef = FALSE
    /\ currentTimeEntryRef = Null
    /\ error = ""
    /\ screenshotInterval = DefaultInterval
    /\ calls = <<>>

SessionInit ==
    /\ RendererInit
    /\ schedule = Null
    /\ handle = Null
    /\ timers = {}
    /\ lastMain = NoMain
    /\ inflight = <<>>
    /\ remoteActive = {}
    /\ nextSession = 1
    /\ lastTick = NoTick

QueueInit(k) ==
    /\ probe = k
    /\ store = {}
    /\ nextId = 1
    /\ queueSize = 0
    /\ isOnline \in BOOLEAN
    /\ closureOnline = isOnline
    /\ passes = <<>>
    /\ addResult = [called |-> FALSE, stored |-> FALSE, thrown |-> FALSE]
    /\ succeeded = {}
    /\ applied = [i \in Ids |-> 0]
    /\ failedPasses = [i \in Ids |-> 0]
    /\ exhausted = {}
    /\ cleared = FALSE
    /\ reconnected = FALSE
    /\ lastDone = NoPassDone
    /\ requests = [i \in Ids |-> 0]
    /\ restarted = FALSE

InitWith(k) == QueueInit(k) /\ SessionInit

Init == InitWith("none")

\* ------------------------------------------------------- updateQueueSize
\* what setQueueSize leaves in queueSize; a rejected count() is only logged
SizeAfterUpdate(st, old, dbOk) == IF dbOk THEN DbCount(st) ELSE old

\* ---------------------------------------------------------- environment
\* window 'offline' event -> handleOffline
HandleOffline ==
    /\ isOnline
    /\ isOnline' = FALSE
    /\ UNCHANGED <<store, nextId, queueSize, closureOnline, passes, probe, requests, restarted,
                   addResult, succeeded, applied, failedPasses, exhausted, cleared,
                   reconnected, lastDone>>
    /\ UNCHANGED sessionVars

\* React commits the render after setIsOnline: the effect with dependency
\* [isOnline] is cleaned up and run again, so the listeners and the interval
\* now close over the new isOnline, and updateQueueSize() is called
RunEffect(dbOkCount) ==
    /\ closureOnline # isOnline
    /\ closureOnline' = isOnline
    /\ queueSize' = SizeAfterUpdate(store, queueSize, dbOkCount)
    /\ UNCHANGED <<store, nextId, isOnline, passes, probe, requests, restarted, addResult, succeeded, applied,
                   failedPasses, exhausted, cleared, reconnected, lastDone>>
    /\ UNCHANGED sessionVars

\* ------------------------------------------------------------ addToQueue
\* whether the promise of addToQueue rejects: the catch block logs and returns
AddToQueueThrows(dbOk) == FALSE

\* db.queuedActions.add(...) and, when it was accepted, updateQueueSize()
AddToQueue(type, data, maxRetries, now, dbOk, dbOkCount) ==
    /\ nextId <= MaxActions
    /\ addResult' = IF probe = "enqueue"
                     THEN [called |-> TRUE, stored |-> dbOk,
                           thrown |-> AddToQueueThrows(dbOk)]
                     ELSE addResult
    /\ IF dbOk
       THEN /\ store' = store \cup {[id |-> nextId, type |-> type, data |-> data,
                                     timestamp |-> now, retryCount |-> 0,
                                     maxRetries |-> maxRetries]}
            /\ nextId' = nextId + 1
            /\ queueSize' = SizeAfterUpdate(store', queueSize, dbOkCount)
            /\ passes' = [i \in 1..Len(passes) |-> Unwatch(passes[i])]
            /\ reconnected' = FALSE
            /\ restarted' = FALSE
       ELSE UNCHANGED <<store, nextId, queueSize, passes, reconnected, restarted>>
    /\ UNCHANGED <<isOnline, closureOnline, probe, requests, succeeded, applied, failedPasses,
                   exhausted, cleared, lastDone>>

\* ------------------------------------------------------------ clearQueue
\* db.queuedActions.clear() and, when it was accepted, updateQueueSize()
ClearQueue(dbOk, dbOkCount) ==
    /\ IF dbOk
       THEN /\ store' = {}
            /\ cleared' = (cleared \/ (probe = "removal" /\ store # {}))
            /\ queueSize' = SizeAfterUpdate(store', queueSize, dbOkCount)
            /\ reconnected' = FALSE
            /\ restarted' = FALSE
       ELSE UNCHANGED <<store, cleared, queueSize, reconnected, restarted>>
    /\ UNCHANGED <<nextId, isOnline, closureOnline, passes, probe, requests, addResult,
                   succeeded, applied, failedPasses, exhausted, lastDone>>
    /\ UNCHANGED sessionVars

\* ---------------------------------------------------------- processQueue
\* processQueue past its guard (line 108): the table is read in timestamp
\* order and processQueuedAction begins for the first action; a rejected read
\* ends the call in the outer catch
\* whether the history watches a pass that begins now: for "pass" one that
\* begins after a reconnect, for "capture" one that begins while queueSize
\* shows the number of actions stored
Watched(afterReconnect) ==
    afterReconnect \/ (probe = "capture" /\ queueSize = DbCount(store))

BeginPass(dbOk, watched) ==
    /\ Len(passes) < MaxPasses
    /\ IF dbOk
       THEN /\ passes' = Append(passes, NewPass(ReadQueue(store), watched))
            /\ UNCHANGED lastDone
       ELSE /\ lastDone' = NoPassDone
            /\ UNCHANGED passes

\* window 'online' event -> handleOnline: setIsOnline(true); processQueue(),
\* where processQueue is the one of the render the listener was registered in
HandleOnline ==
    /\ ~isOnline
    /\ isOnline' = TRUE
    /\ reconnected' = (probe = "pass")
    /\ IF closureOnline
       THEN \E dbOk \in BOOLEAN : BeginPass(dbOk, Watched(probe = "pass"))
       ELSE UNCHANGED <<passes, lastDone>>
    /\ UNCHANGED <<store, nextId, queueSize, closureOnline, probe, requests, restarted, addResult,
                   succeeded, applied, failedPasses, exhausted, cleared>>
    /\ UNCHANGED sessionVars

\* the 30 s interval: if (isOnline) processQueue(), both of the effect's render
TimerFires ==
    /\ closureOnline
    /\ \E dbOk \in BOOLEAN : BeginPass(dbOk, Watched(reconnected))
    /\ UNCHANGED <<store, nextId, queueSize, isOnline, closureOnline, probe, requests, restarted,
                   addResult, succeeded, applied, failedPasses, exhausted, cleared,
                   reconnected>>
    /\ UNCHANGED sessionVars

\* processQueuedAction: getToken yields no token and it throws before any
\* request ("no_token"); the response is not ok or fetch rejects ("failed");
\* the response is ok ("applied")
Outcomes == {"applied", "failed", "no_token"}
Resolves(outcome) == outcome = "applied"
\* whether processQueuedAction got as far as its fetch
RequestSent(outcome) == outcome # "no_token"

Bump(f, id, cap) == [f EXCEPT ![id] = IF @ < cap THEN @ + 1 ELSE @]

\* processQueuedAction(action) settles for the head of todo with one of
\* Outcomes, and the body of the loop runs up to its next await of a remote
\* call (or of the final updateQueueSize); a store operation rejected inside
\* the inner catch ends the pass in the outer catch, without updateQueueSize
FinishAttempt(i, outcome, dbOk, dbOkCatch) ==
    /\ i \in 1..Len(passes)
    /\ passes[i].todo # <<>>
    /\ LET q == passes[i]
           act == Head(q.todo)
           ok == Resolves(outcome)
           updatedRetryCount == act.retryCount + 1
           drop == MaxRetriesReached(updatedRetryCount, act.maxRetries)
           q1 == IF ok /\ q.n # Unwatched
                 THEN [q EXCEPT !.todo = Tail(@), !.dbOk = @ /\ dbOk]
                 ELSE [Unwatch(q) EXCEPT !.todo = Tail(@)]
       IN /\ succeeded' = IF ok /\ probe = "removal"
                         THEN succeeded \cup {act.id} ELSE succeeded
          /\ applied' = IF ok /\ dbOk /\ probe = "applications"
                       THEN Bump(applied, act.id, 2) ELSE applied
          /\ failedPasses' =
                IF ~ok /\ dbOkCatch /\ probe = "failures"
                THEN Bump(failedPasses, act.id, DefaultMaxRetries)
                ELSE failedPasses
          /\ requests' = IF RequestSent(outcome) /\ probe = "requests"
                         THEN Bump(requests, act.id, DefaultMaxRetries + 1)
                         ELSE requests
          /\ IF ok /\ dbOk
             THEN /\ store' = DbDelete(store, act.id)
                  /\ passes' = [passes EXCEPT ![i] = q1]
                  /\ UNCHANGED <<exhausted, lastDone>>
             ELSE /\ exhausted' =
                        IF probe = "removal" /\ updatedRetryCount >= act.maxRetries
                        THEN exhausted \cup {act.id} ELSE exhausted
                  /\ IF dbOkCatch
                     THEN /\ store' = IF drop
                                      THEN DbDelete(store, act.id)
                                      ELSE DbUpdate(store, act, updatedRetryCount)
                          /\ passes' = [passes EXCEPT ![i] = q1]
                          /\ UNCHANGED lastDone
                     ELSE /\ UNCHANGED store
                          /\ passes' = RemoveAt(passes, i)
                          /\ lastDone' = Summary(q1, FALSE)
    /\ restarted' = (restarted /\ store' = store)
    /\ UNCHANGED <<nextId, queueSize, isOnline, closureOnline, probe,
                   addResult, cleared, reconnected>>
    /\ UNCHANGED sessionVars

\* the updateQueueSize that ends a pass (line 135)
PassUpdatesSize(i, dbOkCount) ==
    /\ i \in 1..Len(passes)
    /\ passes[i].todo = <<>>
    /\ queueSize' = SizeAfterUpdate(store, queueSize, dbOkCount)
    /\ passes' = RemoveAt(passes, i)
    /\ lastDone' = Summary(passes[i], dbOkCount)
    /\ UNCHANGED <<store, nextId, isOnline, closureOnline, probe, requests, restarted, addResult,
                   succeeded, applied, failedPasses, exhausted, cleared, reconnected>>
    /\ UNCHANGED sessionVars

Next ==
    \/ HandleOnline
    \/ HandleOffline
    \/ \E dbOkCount \in BOOLEAN : RunEffect(dbOkCount)
    \/ TimerFires
    \/ \E type \in EnqueuedTypes, now \in 1..MaxTime, dbOk, dbOkCount \in BOOLEAN :
          /\ AddToQueue(type, QueuedData("png1", 1, 1, TRUE), DefaultMaxRetries,
                        now, dbOk, dbOkCount)
          /\ UNCHANGED sessionVars
    \/ \E dbOk, dbOkCount \in BOOLEAN : ClearQueue(dbOk, dbOkCount)
    \/ \E i \in 1..MaxPasses, outcome \in Outcomes, dbOk, dbOkCatch \in BOOLEAN :
          FinishAttempt(i, outcome, dbOk, dbOkCatch)
    \/ \E i \in 1..MaxPasses, dbOkCount \in BOOLEAN : PassUpdatesSize(i, dbOkCount)

Spec == Init /\ [][Next]_vars
SpecEnqueue == InitWith("enqueue") /\ [][Next]_vars
SpecRemoval == InitWith("removal") /\ [][Next]_vars
SpecApplications == InitWith("applications") /\ [][Next]_vars
SpecFailures == InitWith("failures") /\ [][Next]_vars
SpecPass == InitWith("pass") /\ [][Next]_vars
SpecRequests == InitWith("requests") /\ [][Next]_vars

\* The queue with its scheduling.  React commits the render that follows
\* every change of isOnline, so the effect runs again whenever it is due
\* (strong fairness); the interval the effect sets fires when 30 s pass
\* without the effect being run again, i.e. when it stays enabled (weak
\* fairness); every remote call of a pass returns, and the store does not
\* reject the operations of the passes for ever (strong fairness of the
\* accepted steps)
DrainFairness ==
    /\ SF_vars(\E dbOkCount \in BOOLEAN : RunEffect(dbOkCount))
    /\ WF_vars(TimerFires /\ passes' # passes)
    /\ \A i \in 1..MaxPasses :
          /\ SF_vars(\E outcome \in Outcomes : FinishAttempt(i, outcome, TRUE, TRUE))
          /\ SF_vars(\E dbOkCount \in BOOLEAN : PassUpdatesSize(i, dbOkCount))

SpecDrain == Init /\ [][Next]_vars /\ DrainFairness

\* =============================================================== Dashboard
Intervals == {DefaultInterval, OtherInterval}
Projects == {1}
Tasks == {1}

\* ------------------------------------------------- main process: intervals
\* a timer is [id, minutes]; setInterval returns a timer no live timer equals
FreshTimer(ts) == CHOOSE n \in 1..(Cardinality(ts) + 1) : \A t \in ts : t.id # n

\* clearInterval(h): the timer h stops, if it is still set
ClearIntervalKeepsTimer(ts, h) == ts
ClearInterval(ts, h) == {t \in ts : t.id # h}

\* the handler of screenshot:start-schedule, lines 356-358: the timers left
\* when this.screenshotInterval = h has been cleared
KeepsAll(ts, h) == ts
Kept(ts, h) == IF h # Null THEN ClearInterval(ts, h) ELSE ts

\* ipcMain.handle('screenshot:start-schedule'): what the handler leaves
StartSchedule(minutes) ==
    LET kept == Kept(timers, handle)
        id == FreshTimer(kept)
    IN /\ timers' = kept \cup {[id |-> id, minutes |-> minutes]}
       /\ handle' = id
       /\ schedule' = minutes
       /\ lastMain' = IF probe = "scheduler"
                      THEN [op |-> "start", after |-> lastMain.op,
                            found |-> kept # timers, success |-> TRUE]
                      ELSE lastMain

\* ipcMain.handle('screenshot:stop-schedule'): what the handler leaves; it
\* answers { success: true } whether or not an interval was set
StopSchedule ==
    /\ timers' = IF handle # Null THEN ClearInterval(timers, handle) ELSE timers
    /\ handle' = Null
    /\ schedule' = Null
    /\ lastMain' = IF probe = "scheduler"
                   THEN [op |-> "stop", after |-> lastMain.op,
                         found |-> timers' # timers, success |-> TRUE]
                   ELSE lastMain

\* IndexedDB when the database InsightfulOfflineDB is opened again at
\* version 1: no upgrade runs, the table holds the records it held
ReopenResetsRetries(st) == {[a EXCEPT !.retryCount = 0] : a \in st}
Reopen(st) == st

\* the renderer is loaded anew (window.location.reload(), or the application
\* is started): every React state is back to its initial value, handlers that
\* were awaiting are gone, and OfflineQueueProvider mounts again (its effect
\* registers the listeners and calls updateQueueSize)
Reload(dbOkCount) ==
    /\ phase' = "login"
    /\ employee' = Null
    /\ selectedProject' = Null
    /\ selectedTask' = Null
    /\ currentTimeEntry' = Null
    /\ isTracking' = FALSE
    /\ isTrackingRef' = FALSE
    /\ currentTimeEntryRef' = Null
    /\ error' = ""
    /\ screenshotInterval' = DefaultInterval
    /\ calls' = <<>>
    /\ passes' = <<>>
    /\ closureOnline' = isOnline
    /\ store' = Reopen(store)
    /\ queueSize' = SizeAfterUpdate(store', 0, dbOkCount)
    /\ restarted' = (probe = "restart")
    /\ inflight' = <<>>
    /\ UNCHANGED <<nextId, isOnline, probe, requests, addResult, succeeded, applied,
                   failedPasses, exhausted, cleared, reconnected, lastDone>>
    /\ UNCHANGED <<nextSession, lastTick>>

\* the application is quit and started again: the main process is new too,
\* so no interval is running
Relaunch(dbOkCount) ==
    /\ Reload(dbOkCount)
    /\ schedule' = Null
    /\ handle' = Null
    /\ timers' = {}
    /\ lastMain' = NoMain
    /\ UNCHANGED remoteActive

\* the window is closed while the application stays (mainWindow 'closed',
\* lines 69-74): the renderer is gone, the interval is cleared and
\* this.screenshotInterval keeps the cleared timer; 'activate' creates the
\* window anew
WindowClosed(dbOkCount) ==
    /\ Reload(dbOkCount)
    /\ timers' = IF handle # Null THEN ClearInterval(timers, handle) ELSE timers
    /\ schedule' = Null
    /\ UNCHANGED <<handle, lastMain, remoteActive>>

\* isAuthenticated becomes true (login, or checkExistingAuth found a valid
\* token) and Dashboard mounts: its mount effect calls loadInitialData, which
\* awaits the remote.  After login, employee is null when fetching
\* /employees/me failed.
Login(emp) ==
    /\ phase = "login"
    /\ phase' = "loading"
    /\ employee' = emp
    /\ UNCHANGED <<selectedProject, selectedTask, currentTimeEntry, isTracking,
                   isTrackingRef, currentTimeEntryRef, error, screenshotInterval,
                   schedule, handle, lastMain, timers, remoteActive, nextSession, calls, lastTick, inflight>>
    /\ UNCHANGED queueVars

\* loadInitialData, lines 107-110: what the session state becomes for the
\* active entry found (Null: none found)
ReconciledIdle(activeEntry) == [currentTimeEntry |-> Null, isTracking |-> FALSE]
Reconciled(activeEntry) ==
    [currentTimeEntry |-> activeEntry, isTracking |-> activeEntry # Null]

\* loadInitialData from its first await to its end.  loaded: getProjects and
\* getTimeEntries resolved (else the catch sets the error); activeEntry: what
\* timeEntries.find(entry => entry.is_active) yields; tasksLoaded, task,
\* project: getTasks resolved, and the task and project found for the entry
LoadResolves(loaded, activeEntry, tasksLoaded, task, project) ==
    /\ phase = "loading"
    /\ phase' = "ready"
    /\ IF ~loaded
       THEN /\ error' = "load"
            /\ UNCHANGED <<currentTimeEntry, isTracking, selectedProject,
                           selectedTask, schedule, handle, lastMain, timers>>
       ELSE IF employee = Null
       THEN UNCHANGED <<error, currentTimeEntry, isTracking, selectedProject,
                        selectedTask, schedule, handle, lastMain, timers>>
       ELSE /\ activeEntry \in remoteActive \/ (activeEntry = Null /\ remoteActive = {})
            /\ currentTimeEntry' = Reconciled(activeEntry).currentTimeEntry
            /\ isTracking' = Reconciled(activeEntry).isTracking
            /\ IF activeEntry # Null
               THEN /\ error' = IF tasksLoaded THEN error ELSE "load"
                    /\ selectedTask' = IF tasksLoaded THEN task ELSE Null
                    /\ selectedProject' =
                          IF tasksLoaded /\ task # Null THEN project ELSE Null
                    /\ UNCHANGED <<schedule, handle, lastMain, timers>>
               ELSE \* "Start screenshot schedule if tracking":
                    \* startScreenshotSchedule() of the first render
                    /\ StartSchedule(DefaultInterval)
                    /\ UNCHANGED <<error, selectedProject, selectedTask>>
    /\ UNCHANGED <<employee, isTrackingRef, currentTimeEntryRef, screenshotInterval,
                   remoteActive, nextSession, calls, lastTick, inflight>>
    /\ UNCHANGED queueVars

\* the effects that copy isTracking and currentTimeEntry into the refs run
\* after the render that follows a state change
SyncRefs ==
    /\ phase # "login"
    /\ <<isTrackingRef, currentTimeEntryRef>> # <<isTracking, currentTimeEntry>>
    /\ isTrackingRef' = isTracking
    /\ currentTimeEntryRef' = currentTimeEntry
    /\ UNCHANGED <<phase, employee, selectedProject, selectedTask, currentTimeEntry,
                   isTracking, error, screenshotInterval, schedule, handle, lastMain, timers, remoteActive,
                   nextSession, calls, lastTick, inflight>>
    /\ UNCHANGED queueVars

\* ProjectTaskSelector.handleProjectChange
ChooseProject(p) ==
    /\ phase = "ready"
    /\ p # selectedProject
    /\ selectedProject' = p
    /\ selectedTask' = IF p = Null THEN Null ELSE selectedTask
    /\ UNCHANGED <<phase, employee, currentTimeEntry, isTracking, isTrackingRef,
                   currentTimeEntryRef, error, screenshotInterval, schedule, handle, lastMain, timers,
                   remoteActive, nextSession, calls, lastTick, inflight>>
    /\ UNCHANGED queueVars

\* ProjectTaskSelector.handleTaskChange: the options are the tasks loaded for
\* the selected project
ChooseTask(t) ==
    /\ phase = "ready"
    /\ t # selectedTask
    /\ t # Null => selectedProject # Null
    /\ selectedTask' = t
    /\ UNCHANGED <<phase, employee, selectedProject, currentTimeEntry, isTracking,
                   isTrackingRef, currentTimeEntryRef, error, screenshotInterval,
                   schedule, handle, lastMain, timers, remoteActive, nextSession, calls, lastTick, inflight>>
    /\ UNCHANGED queueVars

\* the interval input (disabled while isTracking)
SetInterval(minutes) ==
    /\ phase = "ready"
    /\ ~isTracking
    /\ minutes # screenshotInterval
    /\ screenshotInterval' = minutes
    /\ UNCHANGED <<phase, employee, selectedProject, selectedTask, currentTimeEntry,
                   isTracking, isTrackingRef, currentTimeEntryRef, error, schedule, handle, lastMain, timers,
                   remoteActive, nextSession, calls, lastTick, inflight>>
    /\ UNCHANGED queueVars

\* startTracking, lines 158-171: the message of the validation that fails
\* ("" when none does)
NoValidation(emp, project, task) == ""
StartValidation(emp, project, task) ==
    IF emp = Null THEN "auth"
    ELSE IF project = Null THEN "project"
    ELSE IF task = Null THEN "task"
    ELSE ""

\* the Start button (rendered while !isTracking, disabled while no task is
\* selected) -> startTracking up to its await of createTimeEntry; the call
\* keeps the screenshotInterval of the render it was created in
ClickStart ==
    /\ phase = "ready"
    /\ ~isTracking
    /\ selectedTask # Null
    /\ LET failed == StartValidation(employee, selectedProject, selectedTask)
       IN IF failed # ""
          THEN /\ error' = failed
               /\ UNCHANGED calls
          ELSE /\ Len(calls) < MaxCalls
               /\ error' = ""
               /\ calls' = Append(calls, [op |-> "start", entry |-> Null,
                                          interval |-> screenshotInterval])
    /\ UNCHANGED <<phase, employee, selectedProject, selectedTask, currentTimeEntry,
                   isTracking, isTrackingRef, currentTimeEntryRef,
                   screenshotInterval, schedule, handle, lastMain, timers, remoteActive, nextSession,
                   lastTick, inflight>>
    /\ UNCHANGED queueVars

\* a screenshot:stop-schedule request is on its way to the main process
StopSchedulePending(cs) == \E j \in 1..Len(cs) : cs[j].op = "stop_schedule"

\* createTimeEntry settles for the i-th awaiting call: the remote created the
\* entry nextSession and startTracking runs to its end (setCurrentTimeEntry,
\* setIsTracking(true), startScreenshotSchedule), or the call threw and the
\* catch sets the error.  The main process handles its requests in the order
\* sent, so screenshot:start-schedule is handled after any stop-schedule
\* sent before it
StartResolves(i, ok) ==
    /\ i \in 1..Len(calls)
    /\ calls[i].op = "start"
    /\ calls' = RemoveAt(calls, i)
    /\ IF ok
       THEN /\ ~StopSchedulePending(calls)
            /\ nextSession <= MaxSessions
            /\ remoteActive' = remoteActive \cup {nextSession}
            /\ nextSession' = nextSession + 1
            /\ currentTimeEntry' = nextSession
            /\ isTracking' = TRUE
            /\ StartSchedule(calls[i].interval)
            /\ UNCHANGED error
       ELSE /\ error' = "start"
            /\ UNCHANGED <<remoteActive, nextSession, currentTimeEntry, isTracking,
                           schedule, handle, lastMain, timers>>
    /\ UNCHANGED <<phase, employee, selectedProject, selectedTask, isTrackingRef,
                   currentTimeEntryRef, screenshotInterval, lastTick, inflight>>
    /\ UNCHANGED queueVars

\* the Stop button (rendered while isTracking) -> stopTracking up to its
\* await of stopTimeEntry
ClickStop ==
    /\ phase = "ready"
    /\ isTracking
    /\ currentTimeEntry # Null
    /\ Len(calls) < MaxCalls
    /\ error' = ""
    /\ calls' = Append(calls, [op |-> "stop", entry |-> currentTimeEntry,
                               interval |-> Null])
    /\ UNCHANGED <<phase, employee, selectedProject, selectedTask, currentTimeEntry,
                   isTracking, isTrackingRef, currentTimeEntryRef,
                   screenshotInterval, schedule, handle, lastMain, timers, remoteActive, nextSession,
                   lastTick, inflight>>
    /\ UNCHANGED queueVars

\* stopTimeEntry settles for the i-th awaiting call: stopTracking sets the
\* state (setCurrentTimeEntry(null), setIsTracking(false)) and sends
\* screenshot:stop-schedule, which it awaits; or the call threw and the catch
\* sets the error
StopResolves(i, ok) ==
    /\ i \in 1..Len(calls)
    /\ calls[i].op = "stop"
    /\ IF ok
       THEN /\ remoteActive' = remoteActive \ {calls[i].entry}
            /\ currentTimeEntry' = Null
            /\ isTracking' = FALSE
            /\ calls' = [calls EXCEPT ![i] = [op |-> "stop_schedule",
                                             entry |-> Null, interval |-> Null]]
            /\ UNCHANGED error
       ELSE /\ error' = "stop"
            /\ calls' = RemoveAt(calls, i)
            /\ UNCHANGED <<remoteActive, currentTimeEntry, isTracking>>
    /\ UNCHANGED <<phase, employee, selectedProject, selectedTask, isTrackingRef,
                   currentTimeEntryRef, screenshotInterval, schedule, handle, lastMain, timers, nextSession,
                   lastTick, inflight>>
    /\ UNCHANGED queueVars

\* the main process handles screenshot:stop-schedule: clearInterval
StopScheduleHandled(i) ==
    /\ i \in 1..Len(calls)
    /\ calls[i].op = "stop_schedule"
    /\ calls' = RemoveAt(calls, i)
    /\ StopSchedule
    /\ UNCHANGED <<phase, employee, selectedProject, selectedTask, currentTimeEntry,
                   isTracking, isTrackingRef, currentTimeEntryRef, error,
                   screenshotInterval, remoteActive, nextSession, lastTick, inflight>>
    /\ UNCHANGED queueVars

\* handleLogout: stopTracking() when isTracking (stopped: stopTimeEntry
\* resolved), then logout(), which ends in window.location.reload().  The
\* interval of the main process outlives the reload.
Logout(stopped, dbOkCount) ==
    /\ phase = "ready"
    /\ IF isTracking /\ currentTimeEntry # Null /\ stopped
       THEN /\ remoteActive' = remoteActive \ {currentTimeEntry}
            /\ StopSchedule
       ELSE /\ UNCHANGED remoteActive
            /\ IF StopSchedulePending(calls)
               THEN StopSchedule
               ELSE UNCHANGED <<schedule, handle, lastMain, timers>>
    /\ Reload(dbOkCount)

\* ------------------------------------------------------------ capture tick
\* what window.api.screenshot.capture() yields: a result with success and
\* data ("ok"), a result with success false or without data ("no_data"), or
\* a rejected promise ("throws")
CaptureResults == {"ok", "no_data", "throws"}
\* the permission flag of a result with success and data (main.ts returns
\* permission: true with every such result)
CapturedPermissions == {TRUE}

\* line 281, screenshotResult?.success && screenshotResult.data: whether the
\* catch block queues the screenshot
QueuesWithoutImage(capture) == TRUE
QueuesCapture(capture) == capture = "ok"

\* line 256, currentIsTracking && currentEntry && currentEmployee
CapturesRegardless(tracking, entry, emp) == TRUE
ShouldCapture(tracking, entry, emp) == tracking /\ entry # Null /\ emp # Null

\* the interval of the main process sends 'screenshot:trigger' and the
\* listener registered by setupScreenshotListener handles it, to its end:
\* it reads the refs, captures, uploads (uploaded: uploadScreenshot
\* resolved), and queues the screenshot when the upload threw
HandleTrigger(capture, uploaded, imageData, permission, now, dbOk, dbOkCount) ==
    /\ schedule # Null
    /\ phase # "login"
    /\ LET requested == ShouldCapture(isTrackingRef, currentTimeEntryRef, employee)
           uploads == requested /\ capture = "ok"
           queues == requested /\ QueuesCapture(capture)
                     /\ (capture = "ok" => ~uploaded)
       IN /\ lastTick' =
                [capture |-> IF requested THEN capture ELSE "not_requested",
                 active |-> isTracking /\ currentTimeEntry # Null
                            /\ employee # Null,
                 uploaded |-> uploads,
                 failed |-> uploads /\ ~uploaded,
                 queued |-> queues,
                 late |-> FALSE,
                 data |-> IF probe = "capture" /\ queues
                          THEN [imageData |-> imageData,
                                employeeId |-> employee,
                                timeEntryId |-> currentTimeEntryRef,
                                permission |-> permission]
                          ELSE NoData]
          /\ IF queues
             THEN AddToQueue("screenshot_upload",
                             QueuedData(imageData, employee, currentTimeEntryRef,
                                        permission),
                             DefaultMaxRetries, now, dbOk, dbOkCount)
             ELSE UNCHANGED queueVars
    /\ UNCHANGED <<phase, employee, selectedProject, selectedTask, currentTimeEntry,
                   isTracking, isTrackingRef, currentTimeEntryRef, error,
                   screenshotInterval, schedule, handle, lastMain, timers, remoteActive,
                   nextSession, calls, inflight>>

\* a tick with every outcome of its capture, upload and store write; the
\* inputs a run of the handler does not read are not enumerated
Tick(images, permissions, times) ==
    \/ \E capture \in CaptureResults \ {"ok"} :
          HandleTrigger(capture, FALSE, "png1", TRUE, 1, TRUE, TRUE)
    \/ HandleTrigger("ok", TRUE, "png1", TRUE, 1, TRUE, TRUE)
    \/ \E imageData \in images, permission \in permissions, now \in times,
          dbOk, dbOkCount \in BOOLEAN :
          HandleTrigger("ok", FALSE, imageData, permission, now, dbOk, dbOkCount)

NextSession ==
    \/ \E emp \in Employees \cup {Null} : Login(emp)
    \/ \E loaded, tasksLoaded \in BOOLEAN, activeEntry \in Sessions \cup {Null},
          task \in Tasks \cup {Null}, project \in Projects \cup {Null} :
          LoadResolves(loaded, activeEntry, tasksLoaded, task, project)
    \/ SyncRefs
    \/ \E p \in Projects \cup {Null} : ChooseProject(p)
    \/ \E t \in Tasks \cup {Null} : ChooseTask(t)
    \/ \E minutes \in Intervals : SetInterval(minutes)
    \/ ClickStart
    \/ \E i \in 1..MaxCalls, ok \in BOOLEAN : StartResolves(i, ok)
    \/ ClickStop
    \/ \E i \in 1..MaxCalls, ok \in BOOLEAN : StopResolves(i, ok)
    \/ \E i \in 1..MaxCalls : StopScheduleHandled(i)
    \/ \E stopped, dbOkCount \in BOOLEAN : Logout(stopped, dbOkCount)
    \/ \E dbOkCount \in BOOLEAN : Relaunch(dbOkCount)
    \/ Tick({"png1"}, CapturedPermissions, {1})

\* the queue of a client that is quit and started again
NextRestart ==
    \/ Next
    \/ \E dbOkCount \in BOOLEAN : Relaunch(dbOkCount)

SpecRestart == InitWith("restart") /\ [][NextRestart]_vars

SpecSession == Init /\ [][NextSession]_vars

\* ------------------------------------------------------- interval input
\* e.target.value of the number input, as a sequence of characters: the empty
\* string (the field is empty or holds no valid number) or a valid floating
\* point number; min and max of the element do not restrict what is typed
TypedTexts == {<<>>, <<"0">>, <<"1">>, <<"5">>, <<"6", "0">>, <<"6", "1">>,
               <<"-", "3">>, <<"2", ".", "5">>}

DigitChars == {"0", "1", "2", "3", "4", "5", "6", "7", "8", "9"}
DigitValue(c) ==
    CASE c = "0" -> 0 [] c = "1" -> 1 [] c = "2" -> 2 [] c = "3" -> 3
      [] c = "4" -> 4 [] c = "5" -> 5 [] c = "6" -> 6 [] c = "7" -> 7
      [] c = "8" -> 8 [] c = "9" -> 9

\* the value parseInt yields when the text does not begin with a number; an
\* integer no text of TypedTexts denotes stands for NaN
NaN == 0 - 1000

RECURSIVE LeadingDigits(_)
LeadingDigits(text) ==
    IF text # <<>> /\ Head(text) \in DigitChars
    THEN <<Head(text)>> \o LeadingDigits(Tail(text))
    ELSE <<>>

RECURSIVE DigitsValue(_)
DigitsValue(ds) ==
    IF ds = <<>> THEN 0
    ELSE 10 * DigitsValue(SubSeq(ds, 1, Len(ds) - 1)) + DigitValue(ds[Len(ds)])

\* parseInt(text): an optional sign, then the longest run of decimal digits;
\* what follows is ignored
ParseInt(text) ==
    LET signed == text # <<>> /\ Head(text) \in {"-", "+"}
        ds == LeadingDigits(IF signed THEN Tail(text) ELSE text)
    IN IF ds = <<>> THEN NaN
       ELSE IF signed /\ Head(text) = "-" THEN 0 - DigitsValue(ds)
       ELSE DigitsValue(ds)

\* onChange of the interval input: setScreenshotInterval(parseInt(value))
TypeInterval(text) == SetInterval(ParseInt(text))

\* the session with everything that can be typed into the interval input
NextInterval ==
    \/ \E emp \in Employees : Login(emp)
    \/ \E loaded, tasksLoaded \in BOOLEAN, activeEntry \in Sessions \cup {Null},
          task \in Tasks \cup {Null}, project \in Projects \cup {Null} :
          LoadResolves(loaded, activeEntry, tasksLoaded, task, project)
    \/ \E p \in Projects \cup {Null} : ChooseProject(p)
    \/ \E t \in Tasks \cup {Null} : ChooseTask(t)
    \/ \E text \in TypedTexts : TypeInterval(text)
    \/ ClickStart
    \/ \E i \in 1..MaxCalls, ok \in BOOLEAN : StartResolves(i, ok)
    \/ ClickStop
    \/ \E i \in 1..MaxCalls, ok \in BOOLEAN : StopResolves(i, ok)
    \/ \E i \in 1..MaxCalls : StopScheduleHandled(i)

SpecInterval == Init /\ [][NextInterval]_vars

\* the session without the capture ticks, and the window being closed
NextScheduler ==
    \/ \E emp \in Employees \cup {Null} : Login(emp)
    \/ \E loaded, tasksLoaded \in BOOLEAN, activeEntry \in Sessions \cup {Null},
          task \in Tasks \cup {Null}, project \in Projects \cup {Null} :
          LoadResolves(loaded, activeEntry, tasksLoaded, task, project)
    \/ \E p \in Projects \cup {Null} : ChooseProject(p)
    \/ \E t \in Tasks \cup {Null} : ChooseTask(t)
    \/ \E minutes \in Intervals : SetInterval(minutes)
    \/ ClickStart
    \/ \E i \in 1..MaxCalls, ok \in BOOLEAN : StartResolves(i, ok)
    \/ ClickStop
    \/ \E i \in 1..MaxCalls, ok \in BOOLEAN : StopResolves(i, ok)
    \/ \E i \in 1..MaxCalls : StopScheduleHandled(i)
    \/ \E stopped, dbOkCount \in BOOLEAN : Logout(stopped, dbOkCount)
    \/ \E dbOkCount \in BOOLEAN : Relaunch(dbOkCount)
    \/ \E dbOkCount \in BOOLEAN : WindowClosed(dbOkCount)

SpecScheduler == InitWith("scheduler") /\ [][NextScheduler]_vars

\* a tracking session as startTracking leaves it, the refs in step, nothing
\* awaiting, the client online: the state in which the schedule's ticks lead
\* to captures and the 30 s timer to drain passes
InitCapture ==
    /\ QueueInit("capture")
    /\ isOnline
    /\ phase = "ready"
    /\ employee \in Employees
    /\ selectedProject \in Projects
    /\ selectedTask \in Tasks
    /\ currentTimeEntry \in Sessions
    /\ isTracking = TRUE
    /\ isTrackingRef = TRUE
    /\ currentTimeEntryRef = currentTimeEntry
    /\ error = ""
    /\ screenshotInterval = DefaultInterval
    /\ schedule = DefaultInterval
    /\ handle = 1
    /\ timers = {[id |-> 1, minutes |-> DefaultInterval]}
    /\ lastMain = NoMain
    /\ inflight = <<>>
    /\ remoteActive = {currentTimeEntry}
    /\ nextSession = currentTimeEntry + 1
    /\ calls = <<>>
    /\ lastTick = NoTick

\* the capture handler together with the queue it fills
NextCapture ==
    \/ Tick(Images, CapturedPermissions, {1})
    \/ TimerFires
    \/ \E i \in 1..MaxPasses, outcome \in Outcomes, dbOk, dbOkCatch \in BOOLEAN :
          FinishAttempt(i, outcome, dbOk, dbOkCatch)
    \/ \E i \in 1..MaxPasses, dbOkCount \in BOOLEAN : PassUpdatesSize(i, dbOkCount)

SpecCapture == InitCapture /\ [][NextCapture]_vars

\* ---------------------------------------------- the tick handler, by await
\* the session id the handler passes to uploadScreenshot and addToQueue:
\* currentEntry.id, read from the ref when the tick arrived (line 252)
EntryAtSettle(read, current) == current
EntryAtTrigger(read, current) == read

\* a tick arrives and the handler passes its guard (line 256): it requests
\* the capture and awaits it.  (A handler that returns at the guard awaits
\* nothing: HandleTrigger.)
TickBegins ==
    /\ schedule # Null
    /\ phase # "login"
    /\ Len(inflight) < MaxInflight
    /\ ShouldCapture(isTrackingRef, currentTimeEntryRef, employee)
    /\ inflight' = Append(inflight,
                          [stage |-> "capture", entry |-> currentTimeEntryRef,
                           emp |-> employee, imageData |-> "",
                           permission |-> FALSE,
                           active |-> isTracking /\ currentTimeEntry # Null])
    /\ UNCHANGED <<phase, employee, selectedProject, selectedTask, currentTimeEntry,
                   isTracking, isTrackingRef, currentTimeEntryRef, error,
                   screenshotInterval, schedule, handle, timers, lastMain,
                   remoteActive, nextSession, calls, lastTick>>
    /\ UNCHANGED queueVars

\* the capture of the i-th handler settles: with an image the handler goes on
\* to uploadScreenshot and awaits it; without one, or when it threw, the
\* handler ends
CaptureSettles(i, capture, imageData, permission) ==
    /\ i \in 1..Len(inflight)
    /\ inflight[i].stage = "capture"
    /\ IF capture = "ok"
       THEN /\ inflight' = [inflight EXCEPT ![i].stage = "upload",
                                            ![i].imageData = imageData,
                                            ![i].permission = permission]
            /\ UNCHANGED lastTick
       ELSE /\ inflight' = RemoveAt(inflight, i)
            /\ lastTick' = [capture |-> capture, active |-> inflight[i].active,
                            uploaded |-> FALSE, failed |-> FALSE,
                            queued |-> FALSE, late |-> ~isTracking,
                            data |-> NoData]
    /\ UNCHANGED <<phase, employee, selectedProject, selectedTask, currentTimeEntry,
                   isTracking, isTrackingRef, currentTimeEntryRef, error,
                   screenshotInterval, schedule, handle, timers, lastMain,
                   remoteActive, nextSession, calls>>
    /\ UNCHANGED queueVars

\* uploadScreenshot of the i-th handler settles: it resolved, or it threw
\* and the catch calls addToQueue
UploadSettles(i, uploaded, now, dbOk, dbOkCount) ==
    /\ i \in 1..Len(inflight)
    /\ inflight[i].stage = "upload"
    /\ inflight' = RemoveAt(inflight, i)
    /\ LET h == inflight[i]
           data == QueuedData(h.imageData, h.emp,
                              EntryAtTrigger(h.entry, currentTimeEntry),
                              h.permission)
       IN /\ lastTick' = [capture |-> "ok", active |-> h.active,
                          uploaded |-> TRUE, failed |-> ~uploaded,
                          queued |-> ~uploaded, late |-> ~isTracking,
                          data |-> IF probe = "capture" /\ ~uploaded
                                   THEN data ELSE NoData]
          /\ IF uploaded
             THEN UNCHANGED queueVars
             ELSE AddToQueue("screenshot_upload", data, DefaultMaxRetries, now,
                             dbOk, dbOkCount)
    /\ UNCHANGED <<phase, employee, selectedProject, selectedTask, currentTimeEntry,
                   isTracking, isTrackingRef, currentTimeEntryRef, error,
                   screenshotInterval, schedule, handle, timers, lastMain,
                   remoteActive, nextSession, calls>>

\* a tracking session whose ticks are handled await by await, and its stop
NextInFlight ==
    \/ TickBegins
    \/ \E i \in 1..MaxInflight, capture \in CaptureResults,
          permission \in CapturedPermissions :
          CaptureSettles(i, capture, "png1", permission)
    \/ \E i \in 1..MaxInflight, dbOk, dbOkCount \in BOOLEAN :
          UploadSettles(i, FALSE, 1, dbOk, dbOkCount)
    \/ \E i \in 1..MaxInflight : UploadSettles(i, TRUE, 1, TRUE, TRUE)
    \/ SyncRefs
    \/ ClickStop
    \/ \E i \in 1..MaxCalls, ok \in BOOLEAN : StopResolves(i, ok)
    \/ \E i \in 1..MaxCalls : StopScheduleHandled(i)

SpecInFlight == InitCapture /\ [][NextInFlight]_vars

\* ------------------------------------------------------------------ claims
Created == 1..(nextId - 1)
Gone(id) == id \in Created /\ id \notin StoredIds(store)
AwaitsRemote(q) == q.todo # <<>>

\* C1: as long as clearQueue has not emptied the store, an action that
\* addToQueue stored is absent from the store only if some pass applied it
\* successfully or some pass raised its retryCount to maxRetries.
NoUnexplainedLoss ==
    ~cleared => \A id \in Ids : Gone(id) => (id \in succeeded \/ id \in exhausted)

\* one action gone by success and another gone by exhaustion, without clearQueue
BothCausesSeen ==
    /\ ~cleared
    /\ \E id \in Ids : Gone(id) /\ id \in succeeded /\ id \notin exhausted
    /\ \E id \in Ids : Gone(id) /\ id \notin succeeded /\ id \in exhausted

\* C2: queueSize never counts an action that is no longer stored; here for
\* the states inside a drain pass: after every step of a pass that changes
\* the store, queueSize is not larger than the number of actions stored.
QueueSizeWithinStore ==
    [][(passes' # passes /\ store' # store)
          => queueSize' <= Cardinality(store')]_vars

\* C3: an action with maxRetries = 3 whose application failed in three passes
\* (each of which had its store write accepted) is no longer stored, and no
\* pass is applying it again.
GoneAfterThreeFailures ==
    /\ \A a \in store : failedPasses[a.id] < DefaultMaxRetries
    /\ \A i \in 1..Len(passes) :
          AwaitsRemote(passes[i]) =>
             failedPasses[Head(passes[i].todo).id] < DefaultMaxRetries

\* C4: every stored action has retryCount <= maxRetries, and an action that
\* has left the store never comes back.
RetryBoundAndNoReturn ==
    [][/\ \A a \in store' : a.retryCount <= a.maxRetries
       /\ \A id \in Ids : Gone(id) => id \notin StoredIds(store')]_vars

\* a pass is about to settle an action that is already deleted, while a
\* stored action is one failure away from maxRetries
StaleAttemptPending ==
    /\ \E i \in 1..Len(passes) :
          AwaitsRemote(passes[i]) /\ Gone(Head(passes[i].todo).id)
    /\ \E a \in store : a.retryCount = a.maxRetries - 1

\* C5: within a pass the actions are applied one after the other in ascending
\* timestamp order: no action still waiting in the pass is older than the one
\* being applied or than one waiting before it.
AttemptsInTimestampOrder ==
    \A i \in 1..Len(passes) :
       \A j, k \in 1..Len(passes[i].todo) :
          j < k => passes[i].todo[j].timestamp <= passes[i].todo[k].timestamp

\* a pass is applying an action that was enqueued later, but carries an
\* earlier timestamp, than the one it will apply next
OlderTimestampFirst ==
    \E i \in 1..Len(passes) :
       /\ Len(passes[i].todo) >= 2
       /\ passes[i].todo[1].id > passes[i].todo[2].id
       /\ passes[i].todo[1].timestamp < passes[i].todo[2].timestamp

\* C6: while a pass is awaiting a remote call no further pass begins, so at
\* most one pass is in progress.
NoSecondPass ==
    [][(\E i \in 1..Len(passes) : AwaitsRemote(passes[i]))
          => Len(passes') <= Len(passes)]_vars

\* C7: no stored action is successfully applied to the remote more than once
\* (counting the applications after which the store accepted the delete).
AppliedAtMostOnce == \A id \in Ids : applied[id] <= 1

\* C8: when the store rejects the write of addToQueue, the call rejects too.
RejectedAddIsReported ==
    (addResult.called /\ ~addResult.stored) => addResult.thrown

\* C9: the event that turns the connectivity signal from offline to online
\* starts a drain pass by itself (when none is in progress).
OnlineEventStartsPass ==
    [][(~isOnline /\ isOnline' /\ passes = <<>>) => Len(passes') = 1]_vars

ValidationErrors == {"auth", "project", "task"}
StartCalls(cs) == {i \in 1..Len(cs) : cs[i].op = "start"}
StartIssued == Cardinality(StartCalls(calls')) > Cardinality(StartCalls(calls))
Reconciles == phase = "loading" /\ phase' = "ready"
\* the remote call of an awaiting start ("start") or stop ("stop") fails
CallFails(op) ==
    /\ phase' = phase /\ remoteActive' = remoteActive
    /\ \E i \in 1..Len(calls) : calls[i].op = op /\ calls' = RemoveAt(calls, i)
CaptureFailed(tick) == tick.capture \in {"no_data", "throws"}

FailedCaptureLeavesNoTrace ==
    [][(lastTick' # lastTick /\ CaptureFailed(lastTick')) =>
          /\ ~lastTick'.uploaded /\ ~lastTick'.queued
          /\ store' = store /\ queueSize' = queueSize
          /\ schedule' = schedule /\ schedule' # Null]_vars

\* the last tick of a tracking session ended with a failed capture
CaptureFailedWhileTracking ==
    CaptureFailed(lastTick) /\ lastTick.active /\ isTracking /\ schedule # Null

\* C13: no createTimeEntry call is issued while employee, project or task is
\* null, and the step that shows a validation error changes nothing else.
InvalidStartChangesNothing ==
    [][/\ StartIssued =>
             (employee # Null /\ selectedProject # Null /\ selectedTask # Null)
       /\ (error' \in ValidationErrors /\ error' # error) =>
             /\ error' = StartValidation(employee, selectedProject, selectedTask)
             /\ UNCHANGED <<calls, currentTimeEntry, isTracking, schedule,
                            remoteActive, nextSession, selectedProject,
                            selectedTask, store>>]_vars

\* a start was refused for a missing employee or project: the error is
\* shown, the session is idle and nothing awaits the remote
ValidationErrorShown ==
    /\ error \in ValidationErrors
    /\ employee = Null \/ selectedProject = Null
    /\ selectedTask # Null
    /\ ~isTracking /\ currentTimeEntry = Null /\ calls = <<>>

\* C14: when the remote creates the time entry of a start, the state becomes
\* Active with that entry and the schedule runs with the interval configured
\* at that moment.
StartedWithConfiguredInterval ==
    [][remoteActive' \ remoteActive # {} =>
          /\ isTracking'
          /\ currentTimeEntry' \in remoteActive' \ remoteActive
          /\ schedule' = screenshotInterval']_vars

\* C15: when the createTimeEntry call of a start fails, the state is Idle,
\* the error is shown, and schedule, queue and remote are left alone with no
\* further call issued.
FailedStartLeavesIdle ==
    [][CallFails("start") =>
          /\ error' = "start"
          /\ ~isTracking' /\ currentTimeEntry' = Null
          /\ UNCHANGED <<schedule, store, remoteActive>>
          /\ ~StartIssued]_vars

RecoveryStartsSchedule ==
    [][(Reconciles /\ isTracking') => schedule' # Null]_vars

\* C18: while no start, stop or reconciliation is in progress, the schedule
\* runs exactly when the session is Active.
ScheduleFollowsSession ==
    (phase # "loading" /\ calls = <<>>) => (schedule # Null <=> isTracking)

\* C19: a capture is requested only by a tick handled while the React state
\* is a tracking session with an entry and an employee.
CaptureOnlyWhileActive ==
    lastTick.capture \in CaptureResults => lastTick.active

\* C20: a start issues createTimeEntry only while the session is Idle and
\* no other start is awaiting the remote.
StartOnlyInIdle ==
    [][StartIssued => (~isTracking /\ StartCalls(calls) = {})]_vars

\* C23: every reconciliation at startup leaves the state Active when the
\* remote holds an active session.
ReconciliationNeverSkipped ==
    [][(Reconciles /\ remoteActive # {}) => isTracking']_vars

\* C24: when the stopTimeEntry call of a stop fails, the error is shown, the
\* state is Active with the session it had, and schedule, queue and remote
\* are left alone with no further call issued.
FailedStopKeepsActive ==
    [][CallFails("stop") =>
          /\ error' = "stop"
          /\ isTracking' /\ currentTimeEntry' # Null
          /\ UNCHANGED <<currentTimeEntry, schedule, store, remoteActive>>]_vars

\* ------------------------------------------------------ claims on intervals
\* the main process handles a stop-schedule request of the renderer
StopHandled ==
    /\ phase' = phase
    /\ \E i \in 1..Len(calls) :
          calls[i].op = "stop_schedule" /\ calls' = RemoveAt(calls, i)

\* C21: a stop-schedule request answers success and leaves no timer and a
\* null handle; handled when no interval is set (after another stop, or
\* before any start) it changes nothing in the main process.
StopTwiceIsStopOnce ==
    [][StopHandled =>
          /\ lastMain'.op = "stop" /\ lastMain'.success
          /\ handle' = Null /\ timers' = {} /\ schedule' = Null
          /\ handle = Null => UNCHANGED <<handle, timers, schedule>>]_vars

\* two stop requests were handled in a row; the second found no interval
StoppedTwiceInARow ==
    /\ lastMain.op = "stop" /\ lastMain.after = "stop"
    /\ ~lastMain.found /\ lastMain.success
    /\ handle = Null /\ timers = {}

\* C25: at most one interval is set at any time, it is the one the handle
\* refers to, and it runs with the minutes of the most recent start.
AtMostOneTimer ==
    /\ Cardinality(timers) <= 1
    /\ \A t \in timers : t.id = handle /\ t.minutes = schedule
    /\ timers = {} => schedule = Null

\* a start handled while an interval was running replaced it
RestartedWhileRunning ==
    /\ lastMain.op = "start" /\ lastMain.found
    /\ timers = {[id |-> handle, minutes |-> OtherInterval]}

\* C26: the interval in the React state, and the interval of the running
\* schedule, are integers from MinInterval to MaxInterval.
IntervalWithinBounds ==
    /\ screenshotInterval \in MinInterval..MaxInterval
    /\ schedule # Null => schedule \in MinInterval..MaxInterval

\* the session stops: tracking ends or the schedule is cleared
Stops ==
    /\ phase' = phase
    /\ (isTracking /\ ~isTracking') \/ (schedule # Null /\ schedule' = Null)

\* C27: a stop leaves the handlers in flight as they are, and a handler whose
\* upload fails calls addToQueue with the session id it read when its tick
\* arrived, whether or not the session has stopped since.
InFlightSurvivesStop ==
    [][/\ Stops => inflight' = inflight
       /\ \A i \in 1..Len(inflight) :
             (inflight[i].stage = "upload" /\ inflight' = RemoveAt(inflight, i)) =>
                /\ lastTick'.uploaded
                /\ lastTick'.failed => lastTick'.queued
                /\ lastTick'.queued =>
                      /\ lastTick'.data.timeEntryId = inflight[i].entry
                      /\ nextId' # nextId =>
                            \E a \in store' \ store :
                               a.data.timeEntryId = inflight[i].entry]_vars

\* the session was stopped while a handler awaited its upload; the upload
\* failed and the screenshot is stored for the stopped session
QueuedAfterStop ==
    /\ lastTick.failed /\ lastTick.queued /\ lastTick.late
    /\ ~isTracking /\ schedule = Null /\ inflight = <<>>
    /\ \E a \in store : a.data.timeEntryId = lastTick.data.timeEntryId
                         /\ a.data.timeEntryId \notin remoteActive

RequestsWithinMaxRetries ==
    \A id \in Ids : requests[id] <= DefaultMaxRetries

\* C29: a stored action's retryCount never exceeds the number of remote
\* requests sent for it.
RetriesBackedByRequests ==
    \A a \in store : a.retryCount <= requests[a.id]

\* C30: when the client is online again and again, every stored action is
\* eventually absent from the store.
EveryActionLeavesTheStore ==
    ([]<>isOnline) =>
        \A id \in Ids : (id \in StoredIds(store)) ~> (id \notin StoredIds(store))

====
